---- MODULE Spec2Model ----
(***************************************************************************)
(* Model of the MA60 monitor of src/main.go: the persisted state store     *)
(* (loadStateFromFile / saveStateToFile), one analysis pass (runCheck,     *)
(* trackAndAnalyze, sendFourPartDingTalkMessage) and the repetition of     *)
(* passes by main / schedule.                                              *)
(*                                                                         *)
(* Prices are integers (a number of ticks): sums, differences and          *)
(* comparisons of small integers are exact in float64, and a comparison    *)
(* with sum/60 is decided by cross-multiplication.  A close string is      *)
(* either a number or BadClose, which strconv.ParseFloat reads as 0.       *)
(* The webhook URL is taken to be one that http.NewRequest can parse.      *)
(***************************************************************************)
EXTENDS Integers, Sequences, FiniteSets, TLC

\* ------------------------------------------------------------------ bounds
MaxPass == 2            \* number of passes explored (startup pass + scheduled)
MaxClose == 2           \* close prices offered by the candle source: 1..MaxClose
MaxDaemonPass == 3      \* number of passes explored when the whole daemon is followed
MaxDur == 1             \* longest duration of a pass, in ticks of the clock

\* ------------------------------------------------------- program constants
Window == 60            \* candles averaged: for i := 0; i < 60; i++
Limit == 61             \* candles requested and required: Limit(61), len(klines) < 61
BadClose == -1          \* a close string that strconv.ParseFloat rejects

\* ---------------------------------------------------------------- symbols
Symbols == {"A", "B"}
SymOrder == <<"A", "B">>                  \* ascending key order of the symbols
SymbolLists == {<<"A", "B">>, <<"B">>}    \* results of getAllUSDTSymbols

VARIABLES
    pc,              \* position of the process: start, fatal, load, analyze, loop, send,
                     \* save, done (runCheck has returned), race (two runChecks at once)
    env,             \* configuration found at startup: [dotenv, keys, url]
    early,           \* TRUE when the process starts before 08:00
    scope,           \* what is followed in this run: "analysis" (every candle answer,
                     \* passes that take no time) or "daemon" (more passes, of any
                     \* duration, with fewer candle answers)
    sched,           \* schedule goroutine: off, wait (first timer), run (in its loop)
    offset,          \* ticks between 08:00 and the start of the latest scheduled pass
    overlap,         \* TRUE once a runCheck has started while another was in progress
    message,         \* the text built by sendFourPartDingTalkMessage in this pass
    lastEvent,       \* per symbol, status and price of its latest new event since
                     \* the last failed load or save of this run
    pass,            \* number of the pass in progress (1 = startup pass)
    today,           \* calendar date of time.Now()
    file,            \* state.json: [exists, data]
    mapNil,          \* TRUE while the global trackedAssets is the nil map
    trackedAssets,   \* the global map: a function on the tracked symbols
    symbols,         \* the symbol list trackAndAnalyze iterates
    idx,             \* position of the range loop in symbols (1-based)
    dailyBreakouts, dailyBreakdowns, trackedGains, trackedLosses,
    loadCase,        \* condition of the state file seen by this pass's load
    loadResult,      \* "none", "ok", "error": what loadStateFromFile returned
    symbolsResult,   \* "none", "ok", "error": what getAllUSDTSymbols returned
    cur,             \* the symbol of the latest iteration ("" before the first)
    klines,          \* what the klines request of the latest iteration returned
    fetched,         \* per symbol, the kind of answer its klines request got in this pass
    sendResult,      \* "none", "ok", "error": outcome of client.Do
    saveResult,      \* "none", "ok", "error": what saveStateToFile returned
    fileAtStart,     \* state.json as it was when this pass started
    loaded           \* trackedAssets as loadStateFromFile left it in this pass

vars == <<pc, env, early, scope, sched, offset, overlap, message, lastEvent,
          pass, today, file, mapNil, trackedAssets, symbols, idx,
          dailyBreakouts, dailyBreakdowns, trackedGains, trackedLosses,
          loadCase, loadResult, symbolsResult, cur, klines, fetched, sendResult,
          saveResult, fileAtStart, loaded>>

\* ------------------------------------------------------------ TrackedAsset
TrackedAsset(s, status, price, date) ==
    [Symbol |-> s, Status |-> status, EventPrice |-> price, EventDate |-> date]

EmptyMap == [s \in {} |-> TrackedAsset("", "", 0, 0)]

\* trackedAssets[s] = v
MapSet(m, s, v) == [x \in (DOMAIN m) \cup {s} |-> IF x = s THEN v ELSE m[x]]

\* ------------------------------------------------- JSON form of the state
LBrace == [tok |-> "{"]
RBrace == [tok |-> "}"]
Member(key, v) ==
    [tok |-> "member", key |-> key, symbol |-> v.Symbol, status |-> v.Status,
     eventPrice |-> v.EventPrice, eventDate |-> v.EventDate]

\* variant: the eventDate member is not read back
MemberValue_NoDate(t) == TrackedAsset(t.symbol, t.status, t.eventPrice, 0)

\* value of a member token, as json.Unmarshal fills a TrackedAsset from it
MemberValue(t) == TrackedAsset(t.symbol, t.status, t.eventPrice, t.eventDate)

\* json.MarshalIndent of the map: one member per key, keys in ascending order
MarshalIndent(m) ==
    LET keys == SelectSeq(SymOrder, LAMBDA k : k \in DOMAIN m)
    IN  <<LBrace>> \o [i \in 1..Len(keys) |-> Member(keys[i], m[keys[i]])] \o <<RBrace>>

\* the input is one complete JSON object
WellFormed(data) ==
    /\ Len(data) >= 2
    /\ data[1].tok = "{"
    /\ data[Len(data)].tok = "}"
    /\ \A i \in 2..(Len(data) - 1) : data[i].tok = "member"

RECURSIVE DecodeMembers(_, _, _)
DecodeMembers(data, i, m) ==
    IF i > Len(data) - 1 THEN m
    ELSE DecodeMembers(data, i + 1, MapSet(m, data[i].key, MemberValue(data[i])))

\* json.Unmarshal(data, &m): the input is validated before anything is stored
Unmarshal(data, m) ==
    IF WellFormed(data) THEN [err |-> FALSE, m |-> DecodeMembers(data, 2, m)]
    ELSE [err |-> TRUE, m |-> m]

\* ------------------------------------------------------------- state.json
AbsentFile == [exists |-> FALSE, data |-> <<>>]
FileOf(data) == [exists |-> TRUE, data |-> data]

\* variant: empty content is handed to json.Unmarshal
loadStateFromFile_NoEmptyCheck(f, readOk) ==
    IF ~f.exists THEN [err |-> FALSE, m |-> EmptyMap]
    ELSE IF ~readOk THEN [err |-> TRUE, m |-> EmptyMap]
    ELSE Unmarshal(f.data, EmptyMap)

\* variant: every os.ReadFile error is returned, a missing file included
loadStateFromFile_AbsentIsError(f, readOk) ==
    IF ~f.exists \/ ~readOk THEN [err |-> TRUE, m |-> EmptyMap]
    ELSE IF Len(f.data) = 0 THEN [err |-> FALSE, m |-> EmptyMap]
    ELSE Unmarshal(f.data, EmptyMap)

\* loadStateFromFile: the map it leaves in trackedAssets and whether it
\* returns an error.  readOk = FALSE: os.ReadFile fails on a file that exists.
loadStateFromFile(f, readOk) ==
    IF ~f.exists THEN [err |-> FALSE, m |-> EmptyMap]
    ELSE IF ~readOk THEN [err |-> TRUE, m |-> EmptyMap]
    ELSE IF Len(f.data) = 0 THEN [err |-> FALSE, m |-> EmptyMap]
    ELSE Unmarshal(f.data, EmptyMap)

\* os.WriteFile(STATE_FILE, data, 0644): open with O_CREATE|O_TRUNC, then write.
\* w.opened = FALSE: the open fails; otherwise w.n tokens reach the file: none,
\* all but the last, or all of them.
WriteOutcomes(data) ==
    {[opened |-> FALSE, n |-> 0]} \cup
    {[opened |-> TRUE, n |-> k] : k \in {0, Len(data) - 1, Len(data)}}

WriteFile(f, data, w) ==
    IF ~w.opened THEN [err |-> TRUE, file |-> f]
    ELSE [err |-> w.n < Len(data), file |-> FileOf(SubSeq(data, 1, w.n))]

\* saveStateToFile: the error it returns and the file it leaves
saveStateToFile(m, f, w) == WriteFile(f, MarshalIndent(m), w)

\* ------------------------------------------------------------ candle input
\* strconv.ParseFloat with the error dropped: an unparsable string reads as 0
ParseFloat(c) == IF c = BadClose THEN 0 ELSE c

CloseStrings == {BadClose} \cup (1..MaxClose)

\* candles: the oldest Window - 1 share one close, then yesterday's and today's
Klines(base, p, l) ==
    [i \in 1..Limit |-> IF i < Window THEN base ELSE IF i = Window THEN p ELSE l]

FetchError == [err |-> TRUE, klines |-> <<>>]
ShortHistory == [err |-> FALSE, klines |-> [i \in 1..(Limit - 1) |-> 1]]
NotFetched == [err |-> FALSE, klines |-> <<>>]

FetchResults ==
    {FetchError, ShortHistory} \cup
    {[err |-> FALSE, klines |-> Klines(b, p, l)] :
        b \in {MaxClose - 1}, p \in CloseStrings, l \in CloseStrings}

\* ---------------------------------------------------------- trackAndAnalyze
\* sum of the closes of the first n candles: klines[0] .. klines[n-1]
RECURSIVE SumCloses(_, _)
SumCloses(ks, n) ==
    IF n = 0 THEN 0 ELSE SumCloses(ks, n - 1) + ParseFloat(ks[n])

\* ma60 := sum / 60, kept as the fraction sum/Window
Above(x, sum) == x * Window > sum          \* x > ma60
Below(x, sum) == x * Window < sum          \* x < ma60

previousClose(ks) == ParseFloat(ks[Window])        \* klines[59]
latestClose(ks) == ParseFloat(ks[Window + 1])      \* klines[60]

\* variants: the previous close must be strictly on the other side
isNewBreakout_Strict(latest, previous, sum) == Above(latest, sum) /\ Below(previous, sum)
isNewBreakdown_Strict(latest, previous, sum) == Below(latest, sum) /\ Above(previous, sum)

isNewBreakout(latest, previous, sum) == Above(latest, sum) /\ ~Above(previous, sum)
isNewBreakdown(latest, previous, sum) == Below(latest, sum) /\ ~Below(previous, sum)

\* variant: the ratio is printed without the factor 100
Percent_NoScale(num, den) ==
    IF den = 0
    THEN [kind |-> IF num > 0 THEN "+Inf" ELSE IF num < 0 THEN "-Inf" ELSE "NaN", h |-> 0]
    ELSE [kind |-> "num", h |-> (2 * num * 100 + den) \div (2 * den)]

\* num / den * 100 as fmt prints it with %.2f: hundredths of a percent, or
\* the float64 infinities and NaN when den is 0
Percent(num, den) ==
    IF den = 0
    THEN [kind |-> IF num > 0 THEN "+Inf" ELSE IF num < 0 THEN "-Inf" ELSE "NaN", h |-> 0]
    ELSE IF den > 0 THEN [kind |-> "num", h |-> (2 * num * 10000 + den) \div (2 * den)]
    ELSE [kind |-> "num", h |-> (2 * (0 - num) * 10000 - den) \div (2 * (0 - den))]

EventReport(s, price) == [symbol |-> s, price |-> price]
TrackReport(s, eventPrice, pct) == [symbol |-> s, eventPrice |-> eventPrice, pct |-> pct]

\* the klines request failed or returned too few candles
Skipped(r) == r.err \/ Len(r.klines) < Limit

\* variant: a new breakout does not replace an entry the symbol already has
BreakoutCase_KeepFirst(s, latest, date, st) ==
    [st EXCEPT !.db = Append(@, EventReport(s, latest)),
               !.ta = IF s \in DOMAIN @ THEN @
                      ELSE MapSet(@, s, TrackedAsset(s, "breakout", latest, date))]

\* case 1: new breakout today
BreakoutCase(s, latest, date, st) ==
    [st EXCEPT !.db = Append(@, EventReport(s, latest)),
               !.ta = MapSet(@, s, TrackedAsset(s, "breakout", latest, date))]

\* variant: a new breakdown of a symbol that has an entry drops the entry
BreakdownCase_Untrack(s, latest, date, st) ==
    [st EXCEPT !.dd = Append(@, EventReport(s, latest)),
               !.ta = IF s \in DOMAIN @ THEN [k \in DOMAIN @ \ {s} |-> @[k]]
                      ELSE MapSet(@, s, TrackedAsset(s, "breakdown", latest, date))]

\* case 2: new breakdown today
BreakdownCase(s, latest, date, st) ==
    [st EXCEPT !.dd = Append(@, EventReport(s, latest)),
               !.ta = MapSet(@, s, TrackedAsset(s, "breakdown", latest, date))]

\* variant: a reported symbol has its eventPrice moved to the latest close
TrackCase_Refresh(s, latest, sum, st) ==
    IF s \notin DOMAIN st.ta THEN st
    ELSE LET asset == st.ta[s]
             moved == [st.ta EXCEPT ![s].EventPrice = latest]
         IN  IF asset.Status = "breakout" /\ Above(latest, sum)
             THEN [st EXCEPT !.ta = moved,
                             !.tg = Append(@, TrackReport(s, asset.EventPrice,
                                Percent(latest - asset.EventPrice, asset.EventPrice)))]
             ELSE IF asset.Status = "breakdown" /\ Below(latest, sum)
             THEN [st EXCEPT !.ta = moved,
                             !.tl = Append(@, TrackReport(s, asset.EventPrice,
                                Percent(asset.EventPrice - latest, asset.EventPrice)))]
             ELSE st

\* case 3: follow a symbol that has an entry
TrackCase(s, latest, sum, st) ==
    IF s \notin DOMAIN st.ta THEN st
    ELSE LET asset == st.ta[s]
             g == IF asset.Status = "breakout" /\ Above(latest, sum)
                  THEN [st EXCEPT !.tg = Append(@, TrackReport(s, asset.EventPrice,
                                Percent(latest - asset.EventPrice, asset.EventPrice)))]
                  ELSE st
         IN  IF asset.Status = "breakdown" /\ Below(latest, sum)
             THEN [g EXCEPT !.tl = Append(@, TrackReport(s, asset.EventPrice,
                                Percent(asset.EventPrice - latest, asset.EventPrice)))]
             ELSE g

\* variant: no continue after a new event, the tracking case runs as well
ProcessSymbol_NoContinue(s, r, date, st) ==
    IF Skipped(r) THEN st
    ELSE LET sum == SumCloses(r.klines, Window)
             previous == previousClose(r.klines)
             latest == latestClose(r.klines)
             b == IF isNewBreakout(latest, previous, sum)
                  THEN BreakoutCase(s, latest, date, st) ELSE st
             d == IF isNewBreakdown(latest, previous, sum)
                  THEN BreakdownCase(s, latest, date, b) ELSE b
         IN  TrackCase(s, latest, sum, d)

\* one iteration of the range loop over symbols
ProcessSymbol(s, r, date, st) ==
    IF Skipped(r) THEN st
    ELSE LET sum == SumCloses(r.klines, Window)
             previous == previousClose(r.klines)
             latest == latestClose(r.klines)
         IN  IF isNewBreakout(latest, previous, sum) THEN BreakoutCase(s, latest, date, st)
             ELSE IF isNewBreakdown(latest, previous, sum) THEN BreakdownCase(s, latest, date, st)
             ELSE TrackCase(s, latest, sum, st)

\* ------------------------------------------------------------------ state
\* snapshots that earlier runs of the program can have left in state.json
InitEntries(s) ==
    {TrackedAsset(s, "breakout", 2, 0), TrackedAsset(s, "breakdown", 2, 0)}

InitMaps ==
    {EmptyMap} \cup
    {[s \in Symbols |-> IF s = "A" THEN a ELSE b] :
        a \in InitEntries("A"), b \in InitEntries("B")}

InitFiles ==
    {AbsentFile, FileOf(<<>>), FileOf(<<LBrace>>)} \cup
    {FileOf(MarshalIndent(m)) : m \in InitMaps}

\* condition of the state file that a load finds
FileCase(f, readOk) ==
    IF ~f.exists THEN "absent"
    ELSE IF ~readOk THEN "unreadable"
    ELSE IF f.data = <<>> THEN "empty"
    ELSE IF WellFormed(f.data) THEN "wellformed"
    ELSE "malformed"

\* configurations: .env loadable or not, and which variables are set
FullConfig == [dotenv |-> TRUE, keys |-> TRUE, url |-> TRUE]
Configs ==
    {FullConfig,
     [dotenv |-> FALSE, keys |-> FALSE, url |-> FALSE],
     [dotenv |-> TRUE, keys |-> FALSE, url |-> FALSE]}

NoEvent == [Status |-> "none", EventPrice |-> 0]
NoEvents == [s \in Symbols |-> NoEvent]
NoMessage == [date |-> 0, sections |-> <<>>]

\* what every run starts with, whatever its configuration and inputs
InitCommon ==
    /\ pc = "start"
    /\ sched = "off"
    /\ offset = 0
    /\ overlap = FALSE
    /\ message = NoMessage
    /\ lastEvent = NoEvents
    /\ pass = 1
    /\ today = 1
    /\ mapNil = TRUE
    /\ trackedAssets = EmptyMap
    /\ symbols = <<>>
    /\ idx = 1
    /\ dailyBreakouts = <<>>
    /\ dailyBreakdowns = <<>>
    /\ trackedGains = <<>>
    /\ trackedLosses = <<>>
    /\ loadCase = "none"
    /\ loadResult = "none"
    /\ symbolsResult = "none"
    /\ cur = ""
    /\ klines = NotFetched
    /\ fetched = [s \in Symbols |-> "none"]
    /\ sendResult = "none"
    /\ saveResult = "none"
    /\ fileAtStart = file
    /\ loaded = EmptyMap

\* a configured process, started after 08:00, any state file, any candles
Init ==
    /\ env = FullConfig
    /\ early = FALSE
    /\ scope = "analysis"
    /\ file \in InitFiles
    /\ InitCommon

\* candles of the longer runs: a failed request, a breakout, a breakdown to an
\* unparsable close, and a quiet day below the average
DaemonMarket ==
    {FetchError,
     [err |-> FALSE, klines |-> Klines(1, 1, 2)],
     [err |-> FALSE, klines |-> Klines(1, 1, BadClose)],
     [err |-> FALSE, klines |-> Klines(1, BadClose, BadClose)]}

\* the answers of the candle source in a run
MarketAnswers(sc) == IF sc = "analysis" THEN FetchResults ELSE DaemonMarket

\* the number of passes followed in a run
Horizon(sc) == IF sc = "analysis" THEN MaxPass ELSE MaxDaemonPass

\* the durations a pass can have in a run, in ticks
Durations(sc) == IF sc = "analysis" THEN {0} ELSE 0..MaxDur

\* any configuration and start time, over more passes, with fewer candles
DaemonInit ==
    /\ env \in Configs
    /\ early \in BOOLEAN
    /\ scope = "daemon"
    /\ file \in {AbsentFile, FileOf(<<LBrace>>)}
    /\ InitCommon

lists == <<dailyBreakouts, dailyBreakdowns, trackedGains, trackedLosses>>
passLog == <<symbolsResult, cur, klines, fetched, sendResult, saveResult>>
daemon == <<env, early, scope, sched, offset, overlap>>

\* main up to the first runCheck: log.Fatal when godotenv.Load fails; the
\* variables read with os.Getenv are not looked at
Startup ==
    /\ pc = "start"
    /\ pc' = IF env.dotenv THEN "load" ELSE "fatal"
    /\ UNCHANGED <<daemon, message, lastEvent, pass, today, file, mapNil, trackedAssets, symbols,
                   idx, lists, loadCase, loadResult, passLog, fileAtStart, loaded>>

\* variant: the load error is logged and the pass goes on
AfterLoad_GoOn(err) == "analyze"

\* runCheck after loadStateFromFile: return on an error, else go on
AfterLoad(err) == IF err THEN "done" ELSE "analyze"

\* runCheck, entry and step 1: a new pass starts with fresh locals and calls
\* loadStateFromFile
LoadState ==
    /\ pc = "load"
    /\ \E readOk \in BOOLEAN :
         LET r == loadStateFromFile(file, readOk) IN
         /\ file.exists \/ readOk
         /\ trackedAssets' = r.m
         /\ loaded' = r.m
         /\ mapNil' = FALSE
         /\ loadResult' = IF r.err THEN "error" ELSE "ok"
         /\ loadCase' = FileCase(file, readOk)
         /\ pc' = AfterLoad(r.err)
         /\ lastEvent' = IF r.err THEN NoEvents ELSE lastEvent
    /\ message' = NoMessage
    /\ fileAtStart' = file
    /\ symbols' = <<>>
    /\ idx' = 1
    /\ dailyBreakouts' = <<>>
    /\ dailyBreakdowns' = <<>>
    /\ trackedGains' = <<>>
    /\ trackedLosses' = <<>>
    /\ symbolsResult' = "none"
    /\ cur' = ""
    /\ klines' = NotFetched
    /\ fetched' = [s \in Symbols |-> "none"]
    /\ sendResult' = "none"
    /\ saveResult' = "none"
    /\ UNCHANGED <<daemon, pass, today, file>>

\* variant: runCheck gives up when the symbol list cannot be fetched
AfterSymbols_GiveUp(err) == IF err THEN "done" ELSE "loop"

\* trackAndAnalyze after getAllUSDTSymbols: an error returns the four lists
\* as they are, empty, to runCheck, which goes on to send them
AfterSymbols(err) == IF err THEN "send" ELSE "loop"

\* trackAndAnalyze, getAllUSDTSymbols
GetSymbols ==
    /\ pc = "analyze"
    /\ \/ /\ symbolsResult' = "error"
          /\ pc' = AfterSymbols(TRUE)
          /\ UNCHANGED <<symbols, idx>>
       \/ /\ symbolsResult' = "ok"
          /\ symbols' \in SymbolLists
          /\ idx' = 1
          /\ pc' = AfterSymbols(FALSE)
    /\ UNCHANGED <<daemon, message, lastEvent, pass, today, file, mapNil, trackedAssets, lists, loadCase, loadResult,
                   cur, klines, fetched, sendResult, saveResult, fileAtStart, loaded>>

\* kind of answer of a klines request
FetchKind(r) == IF r.err THEN "error" ELSE IF Len(r.klines) < Limit THEN "short" ELSE "ok"

\* variant: a skipped symbol ends the loop
AfterIteration_Break(i, n, r) == IF Skipped(r) THEN n + 1 ELSE i + 1

\* the range loop after the iteration for symbols[i] of n: on to the next index
AfterIteration(i, n, r) == i + 1

\* trackAndAnalyze: one iteration of the loop, for symbols[idx]
AnalyzeSymbol ==
    /\ pc = "loop"
    /\ idx <= Len(symbols)
    /\ \E r \in MarketAnswers(scope) :
         LET s == symbols[idx]
             st == ProcessSymbol(s, r, today,
                       [ta |-> trackedAssets, db |-> dailyBreakouts, dd |-> dailyBreakdowns,
                        tg |-> trackedGains, tl |-> trackedLosses])
         IN  /\ cur' = s
             /\ klines' = r
             /\ fetched' = [fetched EXCEPT ![s] = FetchKind(r)]
             /\ trackedAssets' = st.ta
             /\ dailyBreakouts' = st.db
             /\ dailyBreakdowns' = st.dd
             /\ trackedGains' = st.tg
             /\ trackedLosses' = st.tl
             /\ idx' = AfterIteration(idx, Len(symbols), r)
             /\ lastEvent' =
                   IF st.db # dailyBreakouts
                   THEN [lastEvent EXCEPT ![s] = [Status |-> "breakout", EventPrice |-> latestClose(r.klines)]]
                   ELSE IF st.dd # dailyBreakdowns
                   THEN [lastEvent EXCEPT ![s] = [Status |-> "breakdown", EventPrice |-> latestClose(r.klines)]]
                   ELSE lastEvent
    /\ UNCHANGED <<daemon, message, pc, pass, today, file, mapNil, symbols, loadCase, loadResult,
                   symbolsResult, sendResult, saveResult, fileAtStart, loaded>>

\* trackAndAnalyze: the loop is over, the four lists are returned and the
\* locals of the function are gone
ReturnLists ==
    /\ pc = "loop"
    /\ idx > Len(symbols)
    /\ pc' = "send"
    /\ symbols' = <<>>
    /\ idx' = 1
    /\ cur' = ""
    /\ klines' = NotFetched
    /\ UNCHANGED <<daemon, message, lastEvent, pass, today, file, mapNil, trackedAssets, lists, loadCase, loadResult,
                   symbolsResult, fetched, sendResult, saveResult, fileAtStart, loaded>>

\* variant: a failed delivery ends the pass
AfterSend_Return(err) == IF err THEN "done" ELSE "save"

\* runCheck after sendFourPartDingTalkMessage, which returns nothing
AfterSend(err) == "save"

\* formatSection: the title, then one line per item or the placeholder line
formatSection(title, items) ==
    [title |-> title,
     lines |-> IF Len(items) > 0
               THEN [i \in 1..Len(items) |-> [placeholder |-> FALSE, item |-> <<items[i]>>]]
               ELSE <<[placeholder |-> TRUE, item |-> <<>>]>>]

\* the markdown text: the date header and the four sections in their order
FourPartText(date, db, dd, tg, tl) ==
    [date |-> date,
     sections |-> <<formatSection("dailyBreakouts", db), formatSection("dailyBreakdowns", dd),
                    formatSection("trackedGains", tg), formatSection("trackedLosses", tl)>>]

\* runCheck, step 3: sendFourPartDingTalkMessage builds the text and posts it;
\* client.Do succeeds or fails, and fails always on an empty webhook URL
SendReport ==
    /\ pc = "send"
    /\ message' = FourPartText(today, dailyBreakouts, dailyBreakdowns, trackedGains,
                               trackedLosses)
    /\ \E err \in (IF env.url THEN BOOLEAN ELSE {TRUE}) :
         /\ sendResult' = IF err THEN "error" ELSE "ok"
         /\ pc' = AfterSend(err)
    /\ UNCHANGED <<daemon, lastEvent, pass, today, file, mapNil, trackedAssets, symbols, idx, lists, loadCase,
                   loadResult, symbolsResult, cur, klines, fetched, saveResult, fileAtStart,
                   loaded>>

\* variant: a failed save ends the process
AfterSave_Fatal(err) == IF err THEN "fatal" ELSE "done"

\* runCheck after saveStateToFile: the error is logged and runCheck returns
AfterSave(err) == "done"

\* runCheck, step 4: saveStateToFile; its error is logged and runCheck returns
SaveState ==
    /\ pc = "save"
    /\ \E w \in WriteOutcomes(MarshalIndent(trackedAssets)) :
         LET r == saveStateToFile(trackedAssets, file, w) IN
         /\ file' = r.file
         /\ saveResult' = IF r.err THEN "error" ELSE "ok"
         /\ lastEvent' = IF r.err THEN NoEvents ELSE lastEvent
         /\ pc' = AfterSave(r.err)
    /\ UNCHANGED <<daemon, message, pass, today, mapNil, trackedAssets, symbols, idx, lists, loadCase,
                   loadResult, symbolsResult, cur, klines, fetched, sendResult, fileAtStart,
                   loaded>>

\* variant: main starts the schedule goroutine before its own runCheck
MainAtGo_BeforeCheck(p) == p \notin {"start", "fatal"}

\* main is at "go schedule()": its runCheck, called the line before, has returned
MainAtGo(p) == p = "done"

\* main after the first runCheck: go schedule(), then select {}.  schedule
\* computes the next 08:00 and blocks on its first timer.
GoSchedule ==
    /\ sched = "off"
    /\ MainAtGo(pc)
    /\ sched' = "wait"
    /\ UNCHANGED <<pc, env, early, scope, offset, overlap, message, lastEvent, pass,
                   today, file, mapNil, trackedAssets, symbols, idx, lists, loadCase,
                   loadResult, passLog, fileAtStart, loaded>>

\* schedule: a timer fires and runCheck is called.  The first timer fires at
\* 08:00, today when the process started before 08:00 and tomorrow otherwise;
\* each later one fires 24 hours after the previous runCheck returned, which
\* took d ticks.
NextPass ==
    /\ \/ sched = "wait"
       \/ sched = "run" /\ pc = "done"
    /\ pass < Horizon(scope)
    /\ pc # "race"
    /\ sched' = "run"
    /\ \E d \in Durations(scope) :
         offset' = IF sched = "wait" THEN 0 ELSE offset + d
    /\ IF pc = "done"
       THEN /\ pc' = "load"
            /\ pass' = pass + 1
            /\ today' = IF sched = "wait" /\ early THEN today ELSE today + 1
            /\ UNCHANGED overlap
       ELSE /\ pc' = "race"
            /\ overlap' = TRUE
            /\ UNCHANGED <<pass, today>>
    /\ UNCHANGED <<env, early, scope, message, lastEvent, file, mapNil, trackedAssets,
                   symbols, idx, lists, loadCase, loadResult, passLog, fileAtStart, loaded>>

Next ==
    \/ Startup \/ LoadState \/ GetSymbols \/ AnalyzeSymbol \/ ReturnLists
    \/ SendReport \/ SaveState \/ GoSchedule \/ NextPass

Spec == Init /\ [][Next]_vars

\* the whole daemon; the process keeps taking its next step
DaemonSpec == DaemonInit /\ [][Next]_vars /\ WF_vars(Next)

\* ================================================================== claims
\* number of reports of symbol s in a list
Count(list, s) == Cardinality({i \in 1..Len(list) : list[i].symbol = s})

\* the entry of s in a map, as a sequence of zero or one TrackedAsset
Entry(m, s) == IF s \in DOMAIN m THEN <<m[s]>> ELSE <<>>

\* runCheck has returned: the pass is over and the next has not started
Returned == pc \in {"done", "load"}

\* at least 61 candles with previousClose <= mean of closes 0..59 < latestClose
BreakoutInput(r) ==
    /\ ~r.err
    /\ Len(r.klines) >= 61
    /\ ParseFloat(r.klines[60]) * 60 <= SumCloses(r.klines, 60)
    /\ SumCloses(r.klines, 60) < ParseFloat(r.klines[61]) * 60

\* at least 61 candles with previousClose >= mean of closes 0..59 > latestClose
BreakdownInput(r) ==
    /\ ~r.err
    /\ Len(r.klines) >= 61
    /\ ParseFloat(r.klines[60]) * 60 >= SumCloses(r.klines, 60)
    /\ SumCloses(r.klines, 60) > ParseFloat(r.klines[61]) * 60

\* C1: a symbol whose candles satisfy previousClose <= MA60 < latestClose gets
\* exactly one report, appended to the daily breakouts, and its entry becomes
\* {breakout, latestClose, today} whatever it was; the entry of every symbol
\* reported as a breakout is still that at the end of the pass.
C1_NewBreakout ==
    /\ (cur # "" /\ BreakoutInput(klines)) =>
          /\ Len(dailyBreakouts) >= 1
          /\ dailyBreakouts[Len(dailyBreakouts)] = EventReport(cur, ParseFloat(klines.klines[61]))
          /\ Count(dailyBreakouts, cur) = 1
          /\ Entry(trackedAssets, cur) =
                <<TrackedAsset(cur, "breakout", ParseFloat(klines.klines[61]), today)>>
    /\ pc # "load" => \A i \in 1..Len(dailyBreakouts) :
          Entry(trackedAssets, dailyBreakouts[i].symbol) =
             <<TrackedAsset(dailyBreakouts[i].symbol, "breakout", dailyBreakouts[i].price, today)>>

\* the breakout of a symbol stored as a breakdown, with previousClose = MA60
C1_Witness ==
    /\ pc = "loop"
    /\ cur # ""
    /\ BreakoutInput(klines)
    /\ ParseFloat(klines.klines[60]) * 60 = SumCloses(klines.klines, 60)
    /\ cur \in DOMAIN loaded
    /\ loaded[cur].Status = "breakdown"

\* C2: a symbol whose candles satisfy previousClose >= MA60 > latestClose gets
\* exactly one report, appended to the daily breakdowns, and its entry becomes
\* {breakdown, latestClose, today} whatever it was; the entry of every symbol
\* reported as a breakdown is still that at the end of the pass.
C2_NewBreakdown ==
    /\ (cur # "" /\ BreakdownInput(klines)) =>
          /\ Len(dailyBreakdowns) >= 1
          /\ dailyBreakdowns[Len(dailyBreakdowns)] = EventReport(cur, ParseFloat(klines.klines[61]))
          /\ Count(dailyBreakdowns, cur) = 1
          /\ Entry(trackedAssets, cur) =
                <<TrackedAsset(cur, "breakdown", ParseFloat(klines.klines[61]), today)>>
    /\ pc # "load" => \A i \in 1..Len(dailyBreakdowns) :
          Entry(trackedAssets, dailyBreakdowns[i].symbol) =
             <<TrackedAsset(dailyBreakdowns[i].symbol, "breakdown", dailyBreakdowns[i].price, today)>>

\* the breakdown of a symbol stored as a breakout, with previousClose = MA60
C2_Witness ==
    /\ pc = "loop"
    /\ cur # ""
    /\ BreakdownInput(klines)
    /\ ParseFloat(klines.klines[60]) * 60 = SumCloses(klines.klines, 60)
    /\ cur \in DOMAIN loaded
    /\ loaded[cur].Status = "breakout"

\* C3: in a pass every symbol has a report in at most one of the four lists,
\* and at most one report in it.
C3_ListsDisjoint ==
    \A s \in Symbols :
        Count(dailyBreakouts, s) + Count(dailyBreakdowns, s)
          + Count(trackedGains, s) + Count(trackedLosses, s) <= 1

\* a symbol stored as a breakout breaks out anew: it is in the daily breakouts only
C3_Witness ==
    /\ pc = "send"
    /\ \E s \in DOMAIN loaded :
          /\ loaded[s].Status = "breakout"
          /\ Count(dailyBreakouts, s) = 1
          /\ Count(trackedGains, s) = 0

\* C4: a symbol whose klines request fails or returns fewer than 61 candles is
\* in none of the four lists and keeps the entry (or the absence of one) that
\* was loaded; the loop still visits every symbol of the list.
C4_SkipLeavesNoTrace ==
    /\ \A s \in Symbols :
          fetched[s] \in {"error", "short"} =>
             /\ Count(dailyBreakouts, s) = 0
             /\ Count(dailyBreakdowns, s) = 0
             /\ Count(trackedGains, s) = 0
             /\ Count(trackedLosses, s) = 0
             /\ Entry(trackedAssets, s) = Entry(loaded, s)
    /\ pc = "loop" =>
          \A i \in 1..Len(symbols) : i < idx => fetched[symbols[i]] # "none"

\* the first symbol, which has an entry, is skipped and the second breaks out
C4_Witness ==
    /\ pc = "loop"
    /\ idx > Len(symbols)
    /\ symbols = <<"A", "B">>
    /\ fetched["A"] = "short"
    /\ "A" \in DOMAIN loaded
    /\ fetched["B"] = "ok"
    /\ Count(dailyBreakouts, "B") = 1

\* C5: a successful saveStateToFile followed by loadStateFromFile gives back
\* the map that was saved: the file a successful save has written decodes to
\* trackedAssets, and the load that follows a successful save and can read the
\* file returns no error and leaves trackedAssets as it was.
C5_RoundTrip ==
    [][ /\ (pc = "save" /\ saveResult' = "ok") =>
              loadStateFromFile(file', TRUE) = [err |-> FALSE, m |-> trackedAssets]
        /\ (pc = "load" /\ saveResult = "ok" /\ loadCase' # "unreadable") =>
              (loadResult' = "ok" /\ trackedAssets' = trackedAssets)
      ]_vars

\* the second pass has loaded two entries, one of them written by the first pass
C5_Witness ==
    /\ pc = "analyze"
    /\ pass = 2
    /\ loadResult = "ok"
    /\ DOMAIN trackedAssets = Symbols
    /\ file = FileOf(MarshalIndent(trackedAssets))
    /\ \E s \in Symbols : trackedAssets[s].EventDate = 1
    /\ \E s \in Symbols : trackedAssets[s].EventDate = 0

\* C6: when state.json is absent or empty, loadStateFromFile returns no error
\* and leaves an empty, non-nil map, and the pass analyzes, sends and saves.
C6_AbsentOrEmpty ==
    loadCase \in {"absent", "empty"} =>
       /\ loadResult = "ok"
       /\ ~mapNil
       /\ loaded = EmptyMap
       /\ pc = "analyze" => trackedAssets = EmptyMap
       /\ Returned =>
             (symbolsResult # "none" /\ sendResult # "none" /\ saveResult # "none")

\* a pass that found an empty file has stored an entry and saved it
C6_Witness ==
    /\ pc = "done"
    /\ loadCase = "empty"
    /\ sendResult = "ok"
    /\ saveResult = "ok"
    /\ trackedAssets # EmptyMap

\* C7 as stated: loadStateFromFile returns an error only on malformed content.
C7_ErrorOnlyWhenMalformed ==
    loadResult = "error" => loadCase = "malformed"

\* C7, amended: loadStateFromFile returns an error exactly when the content is
\* malformed or the file exists and cannot be read; on an absent, an empty and
\* a well-formed file it returns no error.
C7_LoadErrors ==
    loadCase # "none" =>
       (loadResult = "error" <=> loadCase \in {"malformed", "unreadable"})

\* the load failed on a file whose content is well-formed
C7_Witness ==
    /\ loadResult = "error"
    /\ loadCase = "unreadable"
    /\ WellFormed(file.data)

\* C8: when loadStateFromFile fails the pass ends there: no symbol list is
\* requested, no symbol analyzed, no report sent, nothing saved, and
\* state.json is what it was when the pass started.
C8_LoadFailureAborts ==
    loadResult = "error" =>
       /\ Returned
       /\ symbolsResult = "none"
       /\ cur = ""
       /\ \A s \in Symbols : fetched[s] = "none"
       /\ dailyBreakouts = <<>> /\ dailyBreakdowns = <<>>
       /\ trackedGains = <<>> /\ trackedLosses = <<>>
       /\ sendResult = "none"
       /\ saveResult = "none"
       /\ file = fileAtStart

\* a pass has ended on malformed content
C8_Witness ==
    /\ pc = "done"
    /\ loadResult = "error"
    /\ loadCase = "malformed"

\* C9: when the delivery fails the pass goes on to saveStateToFile, and a save
\* that succeeds writes the map as the analysis left it: the next load of
\* state.json yields trackedAssets, with the entry of every event of the pass.
C9_SendFailureStillSaves ==
    sendResult = "error" =>
       /\ pc = "save" \/ Returned
       /\ Returned => saveResult # "none"
       /\ (pc = "done" /\ saveResult = "ok") =>
             LET next == loadStateFromFile(file, TRUE) IN
             /\ ~next.err
             /\ next.m = trackedAssets
             /\ \A i \in 1..Len(dailyBreakouts) :
                   Entry(next.m, dailyBreakouts[i].symbol) =
                      <<TrackedAsset(dailyBreakouts[i].symbol, "breakout",
                                     dailyBreakouts[i].price, today)>>
             /\ \A i \in 1..Len(dailyBreakdowns) :
                   Entry(next.m, dailyBreakdowns[i].symbol) =
                      <<TrackedAsset(dailyBreakdowns[i].symbol, "breakdown",
                                     dailyBreakdowns[i].price, today)>>

\* a pass with a new breakout and a failed delivery has saved its map
C9_Witness ==
    /\ pc = "done"
    /\ sendResult = "error"
    /\ saveResult = "ok"
    /\ Len(dailyBreakouts) > 0

\* C10: after a failed saveStateToFile the next load sees what it would have
\* seen before the pass: the failed save leaves no partial or altered content.
C10_FailedSaveKeepsSnapshot ==
    (pc = "done" /\ saveResult = "error") =>
       loadStateFromFile(file, TRUE) = loadStateFromFile(fileAtStart, TRUE)

\* C11: whatever fails in a pass (the load, the symbol list, any candle
\* request, the delivery, the save), runCheck returns, and the schedule loop
\* then starts the next pass.
C11_PassReturnsAndNextStarts ==
    \A n \in 1..MaxDaemonPass :
       /\ (pass = n /\ pc = "load") ~> (pass = n /\ pc = "done")
       /\ (pass = n /\ pc = "done" /\ n < Horizon(scope)) ~> (pass = n + 1 /\ pc = "load")

\* the second pass is starting after a pass in which a candle request, the
\* delivery and the save all failed
C11_Witness ==
    /\ pass = 2
    /\ pc = "load"
    /\ fetched["A"] = "error"
    /\ sendResult = "error"
    /\ saveResult = "error"

\* C12: passes never overlap and each runs its steps in order: no runCheck
\* starts while another is in progress, a pass starts only when the previous
\* one has returned, the schedule goroutine exists only once the startup pass
\* has returned, and within a pass the symbol request follows a successful
\* load, the send follows the analysis and the save follows the send.
C12_PassesSequential ==
    [][ /\ ~overlap' /\ pc' # "race"
        /\ (pass' # pass) => (pc = "done" /\ pc' = "load" /\ pass' = pass + 1)
        /\ (sched = "off" /\ sched' # "off") => (pc = "done" /\ pass = 1)
        /\ (sched' # "off" /\ pc' = "load") => pass' > 1
        /\ (loadResult' # loadResult /\ loadResult' # "none") => pc = "load"
        /\ (symbolsResult' # symbolsResult /\ symbolsResult' # "none") =>
              (pc = "analyze" /\ loadResult = "ok")
        /\ (sendResult' # sendResult /\ sendResult' # "none") =>
              (pc = "send" /\ symbolsResult # "none" /\ loadResult = "ok")
        /\ (saveResult' # saveResult /\ saveResult' # "none") =>
              (pc = "save" /\ sendResult # "none")
      ]_vars

\* the first scheduled pass has loaded, analysed and sent, and is about to save
C12_Witness ==
    /\ pass = 2
    /\ sched = "run"
    /\ pc = "save"
    /\ symbolsResult = "ok"
    /\ sendResult = "ok"

\* C13: when the API credentials or the webhook URL are missing, the process
\* ends at startup: it never gets past main's configuration step, so no pass
\* loads, analyses, sends or saves anything.
C13_MissingConfigIsFatal ==
    (~env.dotenv \/ ~env.keys \/ ~env.url) => pc \in {"start", "fatal"}

\* C14: one pass runs at startup, and every scheduled pass starts at the daily
\* trigger time, 08:00, however long the earlier passes took.
C14_DailyTriggerTime ==
    /\ (sched = "off" /\ pc \notin {"start", "fatal"}) => pass = 1
    /\ (sched = "run") => offset = 0

\* C15: over passes whose loads and saves succeed, StateMap and state.json hold at
\* most one entry per symbol, and the entry a pass starts with has the status
\* and eventPrice of the symbol's latest new breakout or breakdown of an
\* earlier pass, whatever the prices did in the passes between.
C15_EntryIsLatestEvent ==
    /\ \A i, j \in 1..Len(file.data) :
          (i < j /\ file.data[i].tok = "member" /\ file.data[j].tok = "member") =>
             file.data[i].key # file.data[j].key
    /\ \A s \in DOMAIN trackedAssets : trackedAssets[s].Symbol = s
    /\ pc = "analyze" =>
          \A s \in Symbols :
             lastEvent[s] # NoEvent =>
                /\ s \in DOMAIN trackedAssets
                /\ trackedAssets[s].Status = lastEvent[s].Status
                /\ trackedAssets[s].EventPrice = lastEvent[s].EventPrice

\* the third pass starts with the breakout that A had in the first pass, A
\* having had no new event in the second
C15_Witness ==
    /\ pass = 3
    /\ today = 3
    /\ pc = "analyze"
    /\ lastEvent["A"].Status = "breakout"
    /\ "A" \in DOMAIN trackedAssets
    /\ trackedAssets["A"].EventDate = 1

EventSymbols ==
    {s \in Symbols : Count(dailyBreakouts, s) > 0 \/ Count(dailyBreakdowns, s) > 0}

\* C17: a pass changes StateMap only at the symbols it classifies as new
\* breakout or new breakdown: every other entry, reported as tracked or not,
\* fetched or not, listed or not, is in the map handed to the save, and in
\* the file a successful save writes, exactly as it was loaded.
C17_FrameOutsideEvents ==
    /\ (pc \in {"loop", "send", "save", "done"} /\ loadResult = "ok") =>
          \A s \in Symbols \ EventSymbols :
             Entry(trackedAssets, s) = Entry(loaded, s)
    /\ (pc = "done" /\ loadResult = "ok" /\ saveResult = "ok") =>
          \A s \in Symbols \ EventSymbols :
             Entry(loadStateFromFile(file, TRUE).m, s) = Entry(loaded, s)

\* a saved pass in which A was reported as a tracked loss and B had a new
\* breakout
C17_Witness ==
    /\ pc = "done"
    /\ saveResult = "ok"
    /\ "A" \in DOMAIN loaded
    /\ Count(trackedLosses, "A") = 1
    /\ Count(dailyBreakouts, "B") = 1

\* p is num / den * 100 to two decimals: within half a hundredth of it, or,
\* when den is 0, the infinity or NaN that float64 division gives
IsPercentOf(p, num, den) ==
    IF den = 0
    THEN p.kind = (IF num > 0 THEN "+Inf" ELSE IF num < 0 THEN "-Inf" ELSE "NaN")
    ELSE /\ p.kind = "num"
         /\ 2 * (p.h * den - num * 10000) <= den
         /\ 2 * (num * 10000 - p.h * den) <= den

\* C18: a symbol with an entry and no new event today is in tracked gains
\* exactly when its status is breakout and latestClose > MA60, with
\* (latestClose - eventPrice) / eventPrice * 100, in tracked losses exactly
\* when its status is breakdown and latestClose < MA60, with
\* (eventPrice - latestClose) / eventPrice * 100, and otherwise in neither;
\* its entry stays as loaded in every case.
C18_TrackedReports ==
    (/\ pc = "loop" /\ cur # "" /\ fetched[cur] = "ok"
     /\ ~BreakoutInput(klines) /\ ~BreakdownInput(klines)
     /\ cur \in DOMAIN loaded) =>
       LET e == loaded[cur]
           sum == SumCloses(klines.klines, 60)
           latest == ParseFloat(klines.klines[61])
           gain == e.Status = "breakout" /\ latest * 60 > sum
           loss == e.Status = "breakdown" /\ latest * 60 < sum
       IN  /\ Count(trackedGains, cur) = (IF gain THEN 1 ELSE 0)
           /\ Count(trackedLosses, cur) = (IF loss THEN 1 ELSE 0)
           /\ \A i \in 1..Len(trackedGains) :
                 trackedGains[i].symbol = cur =>
                    /\ trackedGains[i].eventPrice = e.EventPrice
                    /\ IsPercentOf(trackedGains[i].pct, latest - e.EventPrice, e.EventPrice)
           /\ \A i \in 1..Len(trackedLosses) :
                 trackedLosses[i].symbol = cur =>
                    /\ trackedLosses[i].eventPrice = e.EventPrice
                    /\ IsPercentOf(trackedLosses[i].pct, e.EventPrice - latest, e.EventPrice)
           /\ Count(dailyBreakouts, cur) = 0
           /\ Count(dailyBreakdowns, cur) = 0
           /\ trackedAssets[cur] = e

\* A, stored as a breakdown at 2, closes unparsably below the average with no
\* new event: a tracked loss of 100 percent
C18_Witness ==
    /\ pc = "loop"
    /\ cur = "A"
    /\ fetched["A"] = "ok"
    /\ ~BreakdownInput(klines)
    /\ "A" \in DOMAIN loaded
    /\ loaded["A"].Status = "breakdown"
    /\ loaded["A"].EventPrice = 2
    /\ ParseFloat(klines.klines[61]) = 0
    /\ Count(trackedLosses, "A") = 1

\* C19: every entry the analysis writes has eventPrice > 0, closes of 0 and
\* unparsable closes included, so the tracking division never has divisor 0.
C19_EventPricePositive ==
    \A s \in DOMAIN trackedAssets : trackedAssets[s].EventPrice > 0

\* the text of a day without any report: four sections, each the placeholder
EmptyReport(date) ==
    [date |-> date,
     sections |-> [i \in 1..4 |->
        [title |-> <<"dailyBreakouts", "dailyBreakdowns", "trackedGains", "trackedLosses">>[i],
         lines |-> <<[placeholder |-> TRUE, item |-> <<>>]>>]]]

\* C20: when the symbol list cannot be fetched, no symbol is analysed, the
\* four lists are empty and StateMap is as loaded; runCheck still sends the
\* report, whose text is that of a day without events, and still saves, and a
\* successful save leaves in state.json the map that was loaded.
C20_SymbolListFailure ==
    symbolsResult = "error" =>
       /\ pc \in {"send", "save", "done", "load"}
       /\ pc # "load" =>
             /\ dailyBreakouts = <<>> /\ dailyBreakdowns = <<>>
             /\ trackedGains = <<>> /\ trackedLosses = <<>>
             /\ \A s \in Symbols : fetched[s] = "none"
             /\ trackedAssets = loaded
             /\ pc # "send" =>
                   /\ sendResult # "none"
                   /\ message = EmptyReport(today)
             /\ pc = "done" =>
                   /\ saveResult # "none"
                   /\ saveResult = "ok" => loadStateFromFile(file, TRUE).m = loaded

\* a pass on a loaded map with entries, its symbol request failed, its report
\* sent and its map saved
C20_Witness ==
    /\ pc = "done"
    /\ symbolsResult = "error"
    /\ loaded # EmptyMap
    /\ sendResult = "ok"
    /\ saveResult = "ok"

====
